---- MODULE Spec2Model ----
(***************************************************************************)
(* Model of pgpkbench (src/main.py): the SlidingSample sampler, the        *)
(* schema/insert/select/relational-insert scenarios for the four primary   *)
(* key strategies, and the autouse cleanup fixture, run one scenario after *)
(* another against one shared database instance.                           *)
(*                                                                         *)
(* The database is modelled by what the SQL statements of main.py do to    *)
(* it: `db` is the committed state, `tx` the state seen by the session     *)
(* that is currently issuing statements (committed state plus its own      *)
(* uncommitted changes).  A commit copies tx to db; a session that is      *)
(* abandoned without a commit leaves db untouched.                         *)
(***************************************************************************)
EXTENDS Integers, Sequences, FiniteSets, TLC

\* ---------------------------------------------------------------- bounds
\* INSERT_COUNT ranges over 0..MaxInsert, SELECT_COUNT over 0..MaxSelect.
MaxInsert == 3
MaxSelect == 2
\* The benchmark fixture calls the timed function between 1 and MaxRounds times.
MaxRounds == 2
\* Number of scenarios run one after another on the shared database.
MaxScenarios == 2
\* random.random() is modelled as k / RandRes for k in 0..RandRes-1.
RandRes == 4

Rand == 0 .. (RandRes - 1)

Kinds == {"insert", "select", "relation"}
Strategies == {"serial", "ulid", "uuidv7", "uuidv4"}
Tables == {"parent", "child"}

VARIABLES
    INSERT_COUNT,   \* module constant read from the environment
    SELECT_COUNT,   \* module constant read from the environment
    nrun,           \* scenarios started so far
    kind, strat,    \* the scenario being run
    pc,             \* position inside the scenario / the cleanup fixture
    db,             \* committed database state
    tx,             \* state seen by the session issuing statements
    size, data,     \* SlidingSample.size, SlidingSample.data
    offers,         \* number of SlidingSample.append calls on this sampler
    item,           \* argument of the pending SlidingSample.append call
    i,              \* loop index of the running for-loop
    round,          \* completed calls of the timed function
    result,         \* `result` list of select(): rows matched per lookup
    parent_id,      \* parent_id local of the relational insert loop
    openConns,      \* connections opened and not closed
    err,            \* the exception that ended the latest scenario body, if any
    clErr,          \* TRUE when a statement of the cleanup fixture raised
    clStart         \* the tables present when the latest cleanup connected

vars == <<INSERT_COUNT, SELECT_COUNT, nrun, kind, strat, pc, db, tx, size, data,
          offers, item, i, round, result, parent_id, openConns, err, clErr, clStart>>

cfgv == <<INSERT_COUNT, SELECT_COUNT, clStart>>
scenv == <<nrun, kind, strat>>
sampv == <<size, data, offers, item>>

\* ------------------------------------------------------------ SlidingSample

\* SlidingSample.__init__
SampleInit(sz) == [size |-> sz, data |-> <<>>]

\* `len(self.data) <= self.size` instead of `<`
HasRoomOffByOne(d, sz) == Len(d) <= sz

\* `len(self.data) < self.size`
HasRoom(d, sz) == Len(d) < sz

\* `random.random() > 0.5` with random.random() = k / RandRes
Accept(k) == 2 * k > RandRes

\* `int(random.random() * (self.size - 1))`: the last slot is never chosen
SlotIndexShort(k, sz) == (k * (sz - 1)) \div RandRes

\* `int(random.random() * self.size)` with random.random() = k / RandRes, sz >= 0
SlotIndex(k, sz) == (k * sz) \div RandRes

\* `self.data[index]` names an element of a Python list (index >= 0 here)
ValidIndex(d, idx) == idx >= 0 /\ idx < Len(d)

\* SlidingSample.append(item): the new data, and whether IndexError was raised
SampleAppend(d, sz, it, k1, k2) ==
    IF HasRoom(d, sz)
    THEN [data |-> Append(d, it), raised |-> FALSE]
    ELSE IF Accept(k1)
         THEN IF ValidIndex(d, SlotIndex(k2, sz))
              THEN [data |-> [d EXCEPT ![SlotIndex(k2, sz) + 1] = it],
                    raised |-> FALSE]
              ELSE [data |-> d, raised |-> TRUE]
         ELSE [data |-> d, raised |-> FALSE]

\* ------------------------------------------------------------ the database

EmptyDb == [tables |-> {}, parent |-> {}, child |-> {}, pseq |-> 1, cseq |-> 1]

Ok(s) == [s |-> s, err |-> "none"]
Fail(s, e) == [s |-> s, err |-> e]

\* CREATE TABLE t: fails when t exists, or when child REFERENCES a missing parent
CreateTable(s, t) ==
    IF t \in s.tables THEN Fail(s, "exists")
    ELSE IF t = "child" /\ "parent" \notin s.tables THEN Fail(s, "missing")
    ELSE Ok([s EXCEPT !.tables = @ \cup {t}])

\* DROP TABLE [IF EXISTS] t: fails on an absent table without IF EXISTS, and on
\* parent while child still references it
DropTable(s, t, ifExists) ==
    IF t \notin s.tables
    THEN IF ifExists THEN Ok(s) ELSE Fail(s, "missing")
    ELSE IF t = "parent" /\ "child" \in s.tables THEN Fail(s, "depends")
    ELSE IF t = "parent"
         THEN Ok([s EXCEPT !.tables = @ \ {t}, !.parent = {}, !.pseq = 1])
         ELSE Ok([s EXCEPT !.tables = @ \ {t}, !.child = {}, !.cseq = 1])

\* The identifiers the key generator of a strategy can return for the next
\* parent row.  serial: the value of the table's sequence.  ulid / uuid7 /
\* uuid4: an identifier never generated before, or one that collides with a
\* stored row; identifiers are named in order of first generation.
NewParentIds(st, s) ==
    IF st = "serial" THEN {s.pseq} ELSE 1 .. (Cardinality(s.parent) + 1)

NewChildIds(st, s) ==
    IF st = "serial" THEN {s.cseq}
    ELSE 1 .. (Cardinality({c.id : c \in s.child}) + 1)

\* INSERT INTO parent ...: primary key enforced
InsertParent(s, st, id) ==
    IF "parent" \notin s.tables THEN Fail(s, "missing")
    ELSE IF id \in s.parent THEN Fail(s, "pk")
    ELSE Ok([s EXCEPT !.parent = @ \cup {id},
                      !.pseq = IF st = "serial" THEN @ + 1 ELSE @])

\* INSERT INTO child ...: primary key and foreign key enforced
InsertChild(s, st, id, pid) ==
    IF "child" \notin s.tables THEN Fail(s, "missing")
    ELSE IF id \in {c.id : c \in s.child} THEN Fail(s, "pk")
    ELSE IF pid \notin s.parent THEN Fail(s, "fk")
    ELSE Ok([s EXCEPT !.child = @ \cup {[id |-> id, parent_id |-> pid]},
                      !.cseq = IF st = "serial" THEN @ + 1 ELSE @])

\* SELECT * FROM parent WHERE id = ...
SelectParent(s, id) == {r \in s.parent : r = id}

\* ------------------------------------------------------------ the scenarios

\* the scenarios that build a SlidingSample
UsesSample(k, st) == k = "select" \/ (k = "insert" /\ st = "serial")

\* every scenario offers the loop index
OfferedLoopIndex(k, id, idx) == idx

\* what a scenario passes to ids.append: the inserted id (select scenarios),
\* the loop index (test_serial_pk_insert)
OfferedItem(k, id, idx) == IF k = "select" THEN id ELSE idx

\* `range(INSERT_COUNT - 1)`
LoopDoneEarly(idx, n) == idx >= n - 1

\* `for i in range(INSERT_COUNT)` is exhausted
LoopDone(idx, n) == idx >= n

\* the child row references the next parent id instead of the one just inserted
ChildRefNext(pid) == pid + 1

\* the parent_id value interpolated into the child INSERT
ChildRef(pid) == pid

\* where a scenario continues after the benchmark fixture returns
AfterTimed(k, st) ==
    IF k = "select" THEN "assert"
    ELSE IF k = "insert" /\ st \in {"uuidv7", "uuidv4"} THEN "peek"
    ELSE "close"

\* positions at which the body has a database statement in flight
FaultPoints == {"create_parent", "create_child", "create_commit", "prefill",
                "prefill_commit", "insert", "child", "lookup", "timed_commit",
                "peek"}

\* ------------------------------------------------------------ the cleanup

\* parent dropped before child
DropOrderParentFirst == <<"parent", "child">>

\* cleanup: DROP ... child, then DROP ... parent
DropOrder == <<"child", "parent">>

\* plain DROP TABLE
NoIfExists == FALSE

\* cleanup uses DROP TABLE IF EXISTS
IfExists == TRUE

\* the statements of cleanup applied to a committed state: the state it
\* commits, and whether it ran without an error
CleanupRun(s) ==
    LET r1 == DropTable(s, DropOrder[1], IfExists)
        r2 == DropTable(r1.s, DropOrder[2], IfExists)
    IN IF r1.err # "none" THEN [s |-> s, ok |-> FALSE]
       ELSE IF r2.err # "none" THEN [s |-> s, ok |-> FALSE]
       ELSE [s |-> r2.s, ok |-> TRUE]

\* ------------------------------------------------------------ Init

Init ==
    /\ INSERT_COUNT \in 0 .. MaxInsert
    /\ SELECT_COUNT \in 0 .. MaxSelect
    /\ nrun = 0
    /\ kind = "none"
    /\ strat = "none"
    /\ pc = "idle"
    /\ db = EmptyDb
    /\ tx = EmptyDb
    /\ size = 0
    /\ data = <<>>
    /\ offers = 0
    /\ item = 0
    /\ i = 0
    /\ round = 0
    /\ result = <<>>
    /\ parent_id = 0
    /\ openConns = 0
    /\ err = "none"
    /\ clErr = FALSE
    /\ clStart = {}

\* ------------------------------------------------------------ actions

\* the test runner starts the next scenario
Start ==
    /\ pc = "idle"
    /\ nrun < MaxScenarios
    /\ \E k \in Kinds, st \in Strategies : kind' = k /\ strat' = st
    /\ nrun' = nrun + 1
    /\ pc' = "connect"
    /\ size' = 0 /\ data' = <<>> /\ offers' = 0 /\ item' = 0
    /\ i' = 0 /\ round' = 0 /\ result' = <<>> /\ parent_id' = 0
    /\ clErr' = FALSE
    /\ UNCHANGED <<cfgv, db, tx, openConns, err>>

\* conn = psycopg2.connect(postgres_url); cur = conn.cursor()
Connect ==
    /\ pc = "connect"
    /\ openConns' = openConns + 1
    /\ tx' = db
    /\ pc' = "create_parent"
    /\ err' = "none"
    /\ UNCHANGED <<cfgv, scenv, db, sampv, i, round, result, parent_id, clErr>>

\* cur.execute("CREATE TABLE parent ...")
CreateParent ==
    /\ pc = "create_parent"
    /\ LET r == CreateTable(tx, "parent")
       IN /\ tx' = r.s
          /\ err' = r.err
          /\ pc' = IF r.err = "none" THEN "create_child" ELSE "cl_connect"
    /\ UNCHANGED <<cfgv, scenv, db, sampv, i, round, result, parent_id, openConns, clErr>>

\* cur.execute("CREATE TABLE child ... REFERENCES parent(id) ...")
CreateChild ==
    /\ pc = "create_child"
    /\ LET r == CreateTable(tx, "child")
       IN /\ tx' = r.s
          /\ err' = r.err
          /\ pc' = IF r.err = "none" THEN "create_commit" ELSE "cl_connect"
    /\ UNCHANGED <<cfgv, scenv, db, sampv, i, round, result, parent_id, openConns, clErr>>

\* conn.commit() of create_tables_*, then ids = SlidingSample(SELECT_COUNT)
CreateCommit ==
    /\ pc = "create_commit"
    /\ db' = tx
    /\ IF UsesSample(kind, strat)
       THEN /\ size' = SampleInit(SELECT_COUNT).size
            /\ data' = SampleInit(SELECT_COUNT).data
       ELSE UNCHANGED <<size, data>>
    /\ pc' = IF kind = "select" THEN "prefill" ELSE "timed_begin"
    /\ UNCHANGED <<cfgv, scenv, tx, offers, item, i, round, result, parent_id,
                   openConns, err, clErr>>

\* pre-fill loop of the select scenarios: generate the id and INSERT it
Prefill ==
    /\ pc = "prefill"
    /\ IF LoopDone(i, INSERT_COUNT)
       THEN /\ pc' = "prefill_commit"
            /\ UNCHANGED <<tx, item, err>>
       ELSE \E id \in NewParentIds(strat, tx) :
              LET r == InsertParent(tx, strat, id)
              IN /\ tx' = r.s
                 /\ err' = r.err
                 /\ item' = IF r.err = "none" THEN OfferedItem(kind, id, i) ELSE item
                 /\ pc' = IF r.err = "none" THEN "offer" ELSE "cl_connect"
    /\ UNCHANGED <<cfgv, scenv, db, size, data, offers, i, round, result, parent_id,
                   openConns, clErr>>

\* ids.append(item)
Offer ==
    /\ pc = "offer"
    /\ \E k1 \in Rand, k2 \in Rand :
         LET r == SampleAppend(data, size, item, k1, k2)
         IN /\ data' = r.data
            /\ err' = IF r.raised THEN "index" ELSE err
            /\ pc' = IF r.raised THEN "cl_connect"
                     ELSE IF kind = "select" THEN "prefill" ELSE "insert"
            /\ i' = IF ~r.raised /\ kind = "select" THEN i + 1 ELSE i
    /\ offers' = offers + 1
    /\ UNCHANGED <<cfgv, scenv, db, tx, size, item, round, result, parent_id,
                   openConns, clErr>>

\* conn.commit() after the pre-fill loop
PrefillCommit ==
    /\ pc = "prefill_commit"
    /\ db' = tx
    /\ pc' = "timed_begin"
    /\ UNCHANGED <<cfgv, scenv, tx, sampv, i, round, result, parent_id, openConns,
                   err, clErr>>

\* the benchmark fixture calls the timed function
BenchmarkCall ==
    /\ pc = "timed_begin"
    /\ i' = 0
    /\ result' = <<>>
    /\ pc' = "timed"
    /\ UNCHANGED <<cfgv, scenv, db, tx, sampv, round, parent_id, openConns, err, clErr>>

\* head of the for-loop of the timed function
TimedLoop ==
    /\ pc = "timed"
    /\ IF kind = "select"
       THEN /\ pc' = IF i >= Len(data) THEN "timed_commit" ELSE "lookup"
            /\ UNCHANGED item
       ELSE IF LoopDone(i, INSERT_COUNT)
            THEN /\ pc' = "timed_commit"
                 /\ UNCHANGED item
            ELSE IF UsesSample(kind, strat)
                 THEN /\ pc' = "offer"
                      /\ item' = OfferedItem(kind, 0, i)
                 ELSE /\ pc' = "insert"
                      /\ UNCHANGED item
    /\ UNCHANGED <<cfgv, scenv, db, tx, size, data, offers, i, round, result,
                   parent_id, openConns, err, clErr>>

\* INSERT INTO parent ... inside the timed function
Insert ==
    /\ pc = "insert"
    /\ \E id \in NewParentIds(strat, tx) :
         LET r == InsertParent(tx, strat, id)
         IN /\ tx' = r.s
            /\ err' = r.err
            /\ IF r.err # "none"
               THEN pc' = "cl_connect" /\ UNCHANGED <<i, parent_id>>
               ELSE IF kind = "relation"
                    THEN pc' = "child" /\ parent_id' = id /\ UNCHANGED i
                    ELSE pc' = "timed" /\ i' = i + 1 /\ UNCHANGED parent_id
    /\ UNCHANGED <<cfgv, scenv, db, sampv, round, result, openConns, clErr>>

\* INSERT INTO child ... of the relational insert scenarios
Child ==
    /\ pc = "child"
    /\ \E cid \in NewChildIds(strat, tx) :
         LET r == InsertChild(tx, strat, cid, ChildRef(parent_id))
         IN /\ tx' = r.s
            /\ err' = r.err
            /\ pc' = IF r.err = "none" THEN "timed" ELSE "cl_connect"
            /\ i' = IF r.err = "none" THEN i + 1 ELSE i
    /\ UNCHANGED <<cfgv, scenv, db, sampv, round, result, parent_id, openConns, clErr>>

\* SELECT * FROM parent WHERE id = ...; result.append(cur.fetchall())
Lookup ==
    /\ pc = "lookup"
    /\ result' = Append(result, Cardinality(SelectParent(tx, data[i + 1])))
    /\ i' = i + 1
    /\ pc' = "timed"
    /\ UNCHANGED <<cfgv, scenv, db, tx, sampv, round, parent_id, openConns, err, clErr>>

\* conn.commit() ending the timed function; the fixture then calls it again
\* or returns its result
TimedCommit ==
    /\ pc = "timed_commit"
    /\ db' = tx
    /\ round' = round + 1
    /\ \E again \in BOOLEAN :
         /\ again => round + 1 < MaxRounds
         /\ pc' = IF again THEN "timed_begin" ELSE AfterTimed(kind, strat)
    /\ UNCHANGED <<cfgv, scenv, tx, sampv, i, result, parent_id, openConns, err, clErr>>

\* assert len(select) == SELECT_COUNT
AssertCount ==
    /\ pc = "assert"
    /\ IF Len(result) = SELECT_COUNT
       THEN pc' = "close" /\ UNCHANGED err
       ELSE pc' = "cl_connect" /\ err' = "assert"
    /\ UNCHANGED <<cfgv, scenv, db, tx, sampv, i, round, result, parent_id,
                   openConns, clErr>>

\* cur.execute("SELECT * FROM parent lIMIT 10;"); cur.fetchall(); print
Peek ==
    /\ pc = "peek"
    /\ pc' = "close"
    /\ UNCHANGED <<cfgv, scenv, db, tx, sampv, i, round, result, parent_id,
                   openConns, err, clErr>>

\* cur.close(); conn.close() at the end of the body
Close ==
    /\ pc = "close"
    /\ openConns' = openConns - 1
    /\ pc' = "cl_connect"
    /\ UNCHANGED <<cfgv, scenv, db, tx, sampv, i, round, result, parent_id, err, clErr>>

\* a database statement of the body raises; the exception leaves the test
\* function and the fixture teardown runs
Fault ==
    /\ pc \in FaultPoints
    /\ pc = "prefill" => ~LoopDone(i, INSERT_COUNT)
    /\ err' = "fault"
    /\ pc' = "cl_connect"
    /\ UNCHANGED <<cfgv, scenv, db, tx, sampv, i, round, result, parent_id,
                   openConns, clErr>>

\* cleanup after the yield: conn = psycopg2.connect(...); cur = conn.cursor()
ClConnect ==
    /\ pc = "cl_connect"
    /\ tx' = db
    /\ openConns' = openConns + 1
    /\ pc' = "cl_drop_1"
    /\ clStart' = db.tables
    /\ UNCHANGED <<INSERT_COUNT, SELECT_COUNT, scenv, db, sampv, i, round, result,
                   parent_id, err, clErr>>

\* first DROP TABLE of cleanup
ClDrop1 ==
    /\ pc = "cl_drop_1"
    /\ LET r == DropTable(tx, DropOrder[1], IfExists)
       IN /\ tx' = r.s
          /\ clErr' = (r.err # "none")
          /\ pc' = IF r.err = "none" THEN "cl_drop_2" ELSE "idle"
    /\ UNCHANGED <<cfgv, scenv, db, sampv, i, round, result, parent_id, openConns, err>>

\* second DROP TABLE of cleanup
ClDrop2 ==
    /\ pc = "cl_drop_2"
    /\ LET r == DropTable(tx, DropOrder[2], IfExists)
       IN /\ tx' = r.s
          /\ clErr' = (r.err # "none")
          /\ pc' = IF r.err = "none" THEN "cl_commit" ELSE "idle"
    /\ UNCHANGED <<cfgv, scenv, db, sampv, i, round, result, parent_id, openConns, err>>

\* conn.commit() of cleanup
ClCommit ==
    /\ pc = "cl_commit"
    /\ db' = tx
    /\ pc' = "cl_close"
    /\ UNCHANGED <<cfgv, scenv, tx, sampv, i, round, result, parent_id, openConns,
                   err, clErr>>

\* cur.close(); conn.close() of cleanup
ClClose ==
    /\ pc = "cl_close"
    /\ openConns' = openConns - 1
    /\ pc' = "idle"
    /\ UNCHANGED <<cfgv, scenv, db, tx, sampv, i, round, result, parent_id, err, clErr>>

Next ==
    \/ Start
    \/ Connect
    \/ CreateParent
    \/ CreateChild
    \/ CreateCommit
    \/ Prefill
    \/ Offer
    \/ PrefillCommit
    \/ BenchmarkCall
    \/ TimedLoop
    \/ Insert
    \/ Child
    \/ Lookup
    \/ TimedCommit
    \/ AssertCount
    \/ Peek
    \/ Close
    \/ Fault
    \/ ClConnect
    \/ ClDrop1
    \/ ClDrop2
    \/ ClCommit
    \/ ClClose

Spec == Init /\ [][Next]_vars

\* ------------------------------------------------------------ properties

\* positions of an insert or relational-insert scenario from the first call
\* of the timed function to the end of the body
InsertBody == {"timed_begin", "timed", "offer", "insert", "child", "timed_commit",
               "peek", "close"}

\* positions of a select scenario from the first call of the timed function
\* to the end of the body
SelectTimed == {"timed_begin", "timed", "lookup", "timed_commit", "assert", "close"}

Min(a, b) == IF a < b THEN a ELSE b

\* C1: after k calls of SlidingSample.append on a fresh sampler of capacity c,
\* len(sampler) = min(c, k); the size never exceeds c and stays c once reached.
C1_SizeIsMinCapacityOffers ==
    /\ Len(data) = Min(size, offers)
    /\ Len(data) <= size

\* a full sampler of positive capacity that has been offered further items
C1_Witness ==
    /\ size > 0
    /\ offers > size
    /\ Len(data) = size

\* C2: one SlidingSample.append(item) below capacity appends item as the last
\* element and moves nothing; at capacity it leaves the contents unchanged or
\* overwrites exactly one slot with item, and every slot 0..capacity-1 can be
\* the one overwritten.
C2_AppendOutcomes ==
    [][pc = "offer" =>
         /\ HasRoom(data, size) => data' = Append(data, item)
         /\ ~HasRoom(data, size) =>
              \/ data' = data
              \/ \E j \in 1 .. Len(data) : data' = [data EXCEPT ![j] = item]
         /\ ~HasRoom(data, size) =>
              \A j \in 1 .. size :
                \E k1 \in Rand, k2 \in Rand :
                  /\ ~SampleAppend(data, size, item, k1, k2).raised
                  /\ SampleAppend(data, size, item, k1, k2).data
                       = [data EXCEPT ![j] = item]
                  /\ SlotIndex(k2, size) = j - 1]_vars

\* a select pre-fill whose full sampler of two or more slots had its last slot
\* overwritten by a later identifier
C2_Witness ==
    /\ kind = "select"
    /\ pc = "prefill"
    /\ size >= 2
    /\ Len(data) = size
    /\ data[size] > size

\* C3: in the select scenario the timed function issues exactly SELECT_COUNT
\* lookups, so len(result) = SELECT_COUNT when the assertion is evaluated.
C3_LookupsEqualSelectCount ==
    (kind = "select" /\ pc = "assert") => Len(result) = SELECT_COUNT

\* C4: in a relational-insert scenario every child row, in the session and in
\* the committed state, references a parent row that exists, and no statement
\* violates the foreign key.
C4_ChildReferencesExistingParent ==
    kind = "relation" =>
        /\ \A c \in tx.child : c.parent_id \in tx.parent
        /\ \A c \in db.child : c.parent_id \in db.parent
        /\ err # "fk"

\* a relational insert that has stored two child rows
C4_Witness ==
    /\ kind = "relation"
    /\ pc = "timed"
    /\ Cardinality(tx.child) >= 2
    /\ \A c \in tx.child : c.parent_id \in tx.parent

C6_CleanupIdempotent ==
    /\ ~clErr
    /\ pc \in {"cl_close"} => db = EmptyDb
    /\ CleanupRun(db).ok
    /\ CleanupRun(db).s = EmptyDb
    /\ CleanupRun(CleanupRun(db).s) = CleanupRun(db)

\* the cleanup of a second scenario that created nothing: it ran to its commit
\* on the state the first cleanup left
C6_Witness ==
    /\ pc = "cl_close"
    /\ nrun = 2
    /\ clStart = {}
    /\ db = EmptyDb

\* C7: once the insert phase has run its INSERT_COUNT inserts and its commit,
\* the parent table holds exactly one row per insert executed: INSERT_COUNT
\* rows after the pre-fill of a select scenario, INSERT_COUNT rows per
\* completed call of the timed function of an insert or relational scenario.
C7_ParentRowCount ==
    /\ (kind \in {"insert", "relation"} /\ pc \in InsertBody) =>
          Cardinality(db.parent) = round * INSERT_COUNT
    /\ (kind = "select" /\ pc \in SelectTimed) =>
          Cardinality(db.parent) = INSERT_COUNT

\* a random-UUID insert scenario after one call of the timed function
C7_Witness ==
    /\ kind = "insert"
    /\ strat = "uuidv4"
    /\ pc = "peek"
    /\ round = 1
    /\ INSERT_COUNT = MaxInsert
    /\ Cardinality(db.parent) = INSERT_COUNT

\* C8: when the scenario body is left (the cleanup is about to connect, or the
\* next scenario may start) no connection is open.
C8_ConnectionsClosedAtBoundary ==
    pc \in {"cl_connect", "idle"} => openConns = 0

\* C9: while the timed function of a select scenario runs, the sampler holds
\* only identifiers of committed parent rows, pairwise distinct, and every
\* lookup made so far matched exactly one row.
C9_SampleHoldsCommittedDistinctIds ==
    (kind = "select" /\ pc \in SelectTimed) =>
        /\ \A j \in 1 .. Len(data) : data[j] \in db.parent
        /\ \A j \in 1 .. Len(data) : \A k \in 1 .. Len(data) :
              j # k => data[j] # data[k]
        /\ \A j \in 1 .. Len(result) : result[j] = 1

\* a select scenario at its assertion whose sampler saw a replacement
C9_Witness ==
    /\ kind = "select"
    /\ pc = "assert"
    /\ Len(result) >= 2
    /\ offers > size
    /\ \E j \in 1 .. Len(data) : data[j] > size

\* C10: SlidingSample.append never raises: on the replacement branch every
\* index it can compute names an existing slot of data.
C10_AppendNeverRaises ==
    /\ err # "index"
    /\ (pc = "offer" /\ ~HasRoom(data, size)) =>
          \A k \in Rand : ValidIndex(data, SlotIndex(k, size))

====
